---- MODULE Spec2Model ----
(***************************************************************************)
(* Model of the skin-issue annotation service of skintel-facial-landmarks  *)
(* (main.py, and the annotation routine of v2.py).  Strings are sequences  *)
(* of one-character strings, so that lower(), title(), replace() and the   *)
(* substring tests of the region rules are computed and not assumed.       *)
(***************************************************************************)
EXTENDS Integers, Sequences, FiniteSets, TLC

(***************************************************************************)
(* Bounds of the model.                                                    *)
(***************************************************************************)
\* longest region label of the resolver harness, in vocabulary words
MaxWords == 2
\* longest issue list of a request
MaxIssues == 2

(***************************************************************************)
(* Strings.                                                                *)
(***************************************************************************)
UpperLetters ==
    <<"A", "B", "C", "D", "E", "F", "G", "H", "I", "J", "K", "L", "M",
      "N", "O", "P", "Q", "R", "S", "T", "U", "V", "W", "X", "Y", "Z">>

LowerLetters ==
    <<"a", "b", "c", "d", "e", "f", "g", "h", "i", "j", "k", "l", "m",
      "n", "o", "p", "q", "r", "s", "t", "u", "v", "w", "x", "y", "z">>

IsUpper(c) == \E n \in 1..26 : UpperLetters[n] = c

IsLower(c) == \E n \in 1..26 : LowerLetters[n] = c

LowerChar(c) ==
    IF IsUpper(c) THEN LowerLetters[CHOOSE n \in 1..26 : UpperLetters[n] = c] ELSE c

UpperChar(c) ==
    IF IsLower(c) THEN UpperLetters[CHOOSE n \in 1..26 : LowerLetters[n] = c] ELSE c

\* str.lower()
Lower(s) == [n \in 1..Len(s) |-> LowerChar(s[n])]

\* needle in hay
Contains(hay, needle) ==
    \E n \in 0..(Len(hay) - Len(needle)) :
        \A m \in 1..Len(needle) : hay[n + m] = needle[m]

\* str.replace('_', ' ')
ReplaceUnderscore(s) == [n \in 1..Len(s) |-> IF s[n] = "_" THEN " " ELSE s[n]]

\* str.title(): a cased character is upper-cased when the character before it
\* is not cased, and lower-cased otherwise
Title(s) ==
    [n \in 1..Len(s) |->
        IF n > 1 /\ (IsUpper(s[n - 1]) \/ IsLower(s[n - 1]))
        THEN LowerChar(s[n])
        ELSE UpperChar(s[n])]

RECURSIVE Concat(_)
Concat(words) ==
    IF words = <<>> THEN <<>> ELSE Head(words) \o Concat(Tail(words))

(***************************************************************************)
(* The anchor topology.                                                    *)
(***************************************************************************)
LANDMARK_INDICES ==
    [ lips |-> <<61, 146, 91, 181, 84, 17, 314, 405, 321, 375, 291, 409, 270,
                 269, 267, 0, 37, 39, 40, 185>>,
      left_eye |-> <<263, 249, 390, 373, 374, 380, 381, 382, 362, 398, 384,
                     385, 386, 387, 388, 466, 359, 255, 339, 254, 253, 252,
                     256, 341>>,
      right_eye |-> <<33, 7, 163, 144, 145, 153, 154, 155, 133, 173, 157, 158,
                      159, 160, 161, 246, 130, 25, 110, 24, 23, 22, 26, 112>>,
      left_eyebrow |-> <<276, 283, 282, 295, 285, 300, 293, 334, 296, 336>>,
      right_eyebrow |-> <<46, 53, 52, 65, 55, 70, 63, 105, 66, 107>>,
      nose |-> <<1, 2, 98, 327, 195, 5, 4, 275, 440, 220, 45, 274, 237, 44, 19>>,
      face_oval |-> <<10, 338, 297, 332, 284, 251, 389, 356, 454, 323, 361,
                      288, 397, 365, 379, 378, 400, 377, 152, 148, 176, 149,
                      150, 136, 172, 58, 132, 93, 234, 127, 162, 21, 54, 103,
                      67, 109>>,
      forehead |-> <<10, 338, 297, 332, 284, 251, 389, 356, 454, 323, 67, 109, 10>>,
      left_under_eye |-> <<111, 117, 118, 119, 120, 121, 128, 245, 193, 122,
                           196, 3, 51, 45>>,
      right_under_eye |-> <<340, 346, 347, 348, 349, 350, 357, 465, 417, 351,
                            419, 248, 281, 275>>,
      left_tear_trough |-> <<111, 117, 118, 119, 120, 121, 128, 245>>,
      right_tear_trough |-> <<340, 346, 347, 348, 349, 350, 357, 465>>,
      left_cheek |-> <<266, 426, 436, 416, 376, 352, 280, 330>>,
      right_cheek |-> <<36, 206, 216, 192, 147, 123, 50, 101>>,
      t_zone |-> <<10, 151, 9, 8, 168, 6, 197, 195, 5, 4, 1, 19, 94, 2>> ]

\* the keyword literals of the region rules
KW ==
    [ eye |-> <<"e", "y", "e">>,
      left |-> <<"l", "e", "f", "t">>,
      right |-> <<"r", "i", "g", "h", "t">>,
      under |-> <<"u", "n", "d", "e", "r">>,
      lip |-> <<"l", "i", "p">>,
      mouth |-> <<"m", "o", "u", "t", "h">>,
      left_eye |-> <<"l", "e", "f", "t", "_", "e", "y", "e">>,
      right_eye |-> <<"r", "i", "g", "h", "t", "_", "e", "y", "e">>,
      eyebrow |-> <<"e", "y", "e", "b", "r", "o", "w">>,
      nose |-> <<"n", "o", "s", "e">>,
      forehead |-> <<"f", "o", "r", "e", "h", "e", "a", "d">>,
      t_zone |-> <<"t", "_", "z", "o", "n", "e">>,
      t_dash_zone |-> <<"t", "-", "z", "o", "n", "e">>,
      cheek |-> <<"c", "h", "e", "e", "k">>,
      t |-> <<"t">>,
      zone |-> <<"z", "o", "n", "e">> ]

\* the under-eye answer shared by the first two rules of get_region_landmarks
UnderEyeBySide(name) ==
    IF Contains(name, KW.left) THEN LANDMARK_INDICES.left_under_eye
    ELSE IF Contains(name, KW.right) THEN LANDMARK_INDICES.right_under_eye
    ELSE LANDMARK_INDICES.left_under_eye \o LANDMARK_INDICES.right_under_eye

\* get_region_landmarks without its final fallback: an unmatched label gets
\* no landmarks
get_region_landmarks_NoFallback(region_name, is_dark_circle) ==
    LET name == Lower(region_name) IN
    IF is_dark_circle /\ Contains(name, KW.eye) THEN UnderEyeBySide(name)
    ELSE IF Contains(name, KW.under) /\ Contains(name, KW.eye) THEN UnderEyeBySide(name)
    ELSE IF Contains(name, KW.lip) \/ Contains(name, KW.mouth) THEN LANDMARK_INDICES.lips
    ELSE IF Contains(name, KW.left_eye) THEN LANDMARK_INDICES.left_eye
    ELSE IF Contains(name, KW.right_eye) THEN LANDMARK_INDICES.right_eye
    ELSE IF Contains(name, KW.eye)
        THEN LANDMARK_INDICES.left_eye \o LANDMARK_INDICES.right_eye
    ELSE IF Contains(name, KW.nose) THEN LANDMARK_INDICES.nose
    ELSE IF Contains(name, KW.forehead) THEN LANDMARK_INDICES.forehead
    ELSE IF Contains(name, KW.t_zone) \/ Contains(name, KW.t_dash_zone)
        THEN LANDMARK_INDICES.t_zone
    ELSE IF Contains(name, KW.cheek) THEN
        IF Contains(name, KW.left) THEN LANDMARK_INDICES.left_cheek
        ELSE IF Contains(name, KW.right) THEN LANDMARK_INDICES.right_cheek
        ELSE LANDMARK_INDICES.left_cheek \o LANDMARK_INDICES.right_cheek
    ELSE <<>>

\* get_region_landmarks with the test for 'eye' placed before the tests for
\* 'left_eye' and 'right_eye'
get_region_landmarks_EyeFirst(region_name, is_dark_circle) ==
    LET name == Lower(region_name) IN
    IF is_dark_circle /\ Contains(name, KW.eye) THEN UnderEyeBySide(name)
    ELSE IF Contains(name, KW.under) /\ Contains(name, KW.eye) THEN UnderEyeBySide(name)
    ELSE IF Contains(name, KW.lip) \/ Contains(name, KW.mouth) THEN LANDMARK_INDICES.lips
    ELSE IF Contains(name, KW.eye)
        THEN LANDMARK_INDICES.left_eye \o LANDMARK_INDICES.right_eye
    ELSE IF Contains(name, KW.left_eye) THEN LANDMARK_INDICES.left_eye
    ELSE IF Contains(name, KW.right_eye) THEN LANDMARK_INDICES.right_eye
    ELSE IF Contains(name, KW.eyebrow)
        THEN LANDMARK_INDICES.left_eyebrow \o LANDMARK_INDICES.right_eyebrow
    ELSE IF Contains(name, KW.nose) THEN LANDMARK_INDICES.nose
    ELSE IF Contains(name, KW.forehead) THEN LANDMARK_INDICES.forehead
    ELSE IF Contains(name, KW.t_zone) \/ Contains(name, KW.t_dash_zone)
        THEN LANDMARK_INDICES.t_zone
    ELSE IF Contains(name, KW.cheek) THEN
        IF Contains(name, KW.left) THEN LANDMARK_INDICES.left_cheek
        ELSE IF Contains(name, KW.right) THEN LANDMARK_INDICES.right_cheek
        ELSE LANDMARK_INDICES.left_cheek \o LANDMARK_INDICES.right_cheek
    ELSE LANDMARK_INDICES.face_oval

get_region_landmarks(region_name, is_dark_circle) ==
    LET name == Lower(region_name) IN
    IF is_dark_circle /\ Contains(name, KW.eye) THEN UnderEyeBySide(name)
    ELSE IF Contains(name, KW.under) /\ Contains(name, KW.eye) THEN UnderEyeBySide(name)
    ELSE IF Contains(name, KW.lip) \/ Contains(name, KW.mouth) THEN LANDMARK_INDICES.lips
    ELSE IF Contains(name, KW.left_eye) THEN LANDMARK_INDICES.left_eye
    ELSE IF Contains(name, KW.right_eye) THEN LANDMARK_INDICES.right_eye
    ELSE IF Contains(name, KW.eye)
        THEN LANDMARK_INDICES.left_eye \o LANDMARK_INDICES.right_eye
    ELSE IF Contains(name, KW.eyebrow)
        THEN LANDMARK_INDICES.left_eyebrow \o LANDMARK_INDICES.right_eyebrow
    ELSE IF Contains(name, KW.nose) THEN LANDMARK_INDICES.nose
    ELSE IF Contains(name, KW.forehead) THEN LANDMARK_INDICES.forehead
    ELSE IF Contains(name, KW.t_zone) \/ Contains(name, KW.t_dash_zone)
        THEN LANDMARK_INDICES.t_zone
    ELSE IF Contains(name, KW.cheek) THEN
        IF Contains(name, KW.left) THEN LANDMARK_INDICES.left_cheek
        ELSE IF Contains(name, KW.right) THEN LANDMARK_INDICES.right_cheek
        ELSE LANDMARK_INDICES.left_cheek \o LANDMARK_INDICES.right_cheek
    ELSE LANDMARK_INDICES.face_oval

DARK_CIRCLE_TYPES ==
    { <<"d", "a", "r", "k", "_", "c", "i", "r", "c", "l", "e", "s">>,
      <<"d", "a", "r", "k", " ", "c", "i", "r", "c", "l", "e", "s">>,
      <<"e", "y", "e", "_", "b", "a", "g", "s">>,
      <<"p", "u", "f", "f", "y", "_", "e", "y", "e", "s">>,
      <<"u", "n", "d", "e", "r", "_", "e", "y", "e", "_", "c", "i", "r", "c", "l", "e", "s">>,
      <<"u", "n", "d", "e", "r", "-", "e", "y", "e", " ", "c", "i", "r", "c", "l", "e", "s">>,
      <<"d", "a", "r", "k", "_", "c", "i", "r", "c", "l", "e">>,
      <<"e", "y", "e", " ", "b", "a", "g", "s">>,
      <<"p", "u", "f", "f", "y", " ", "e", "y", "e", "s">>,
      <<"u", "n", "d", "e", "r", " ", "e", "y", "e">> }

UNEVEN_TONE_TYPES ==
    { <<"u", "n", "e", "v", "e", "n", "_", "s", "k", "i", "n", "_", "t", "o", "n", "e">>,
      <<"u", "n", "e", "v", "e", "n", " ", "s", "k", "i", "n", " ", "t", "o", "n", "e">>,
      <<"h", "y", "p", "e", "r", "p", "i", "g", "m", "e", "n", "t", "a", "t", "i", "o", "n">>,
      <<"p", "o", "s", "t", "_", "i", "n", "f", "l", "a", "m", "m", "a", "t", "o", "r", "y",
        "_", "h", "y", "p", "e", "r", "p", "i", "g", "m", "e", "n", "t", "a", "t", "i", "o", "n">> }

\* is_dark_circle of the annotation loop
IsDarkCircle(type) == Lower(type) \in DARK_CIRCLE_TYPES

\* the side tests of the dark-circle branch in the other order
TearTroughBySide_RightFirst(region) ==
    IF Contains(Lower(region), KW.right) THEN LANDMARK_INDICES.right_tear_trough
    ELSE IF Contains(Lower(region), KW.left) THEN LANDMARK_INDICES.left_tear_trough
    ELSE LANDMARK_INDICES.left_tear_trough \o LANDMARK_INDICES.right_tear_trough

\* the tear-trough answer of the annotation loop for a dark-circle issue
TearTroughBySide(region) ==
    IF Contains(Lower(region), KW.left) THEN LANDMARK_INDICES.left_tear_trough
    ELSE IF Contains(Lower(region), KW.right) THEN LANDMARK_INDICES.right_tear_trough
    ELSE LANDMARK_INDICES.left_tear_trough \o LANDMARK_INDICES.right_tear_trough

\* the broader regions of the annotation loop for an uneven-tone issue
UnevenToneIndices(region) ==
    IF Contains(Lower(region), KW.cheek) THEN
        IF Contains(Lower(region), KW.left) THEN LANDMARK_INDICES.left_cheek
        ELSE IF Contains(Lower(region), KW.right) THEN LANDMARK_INDICES.right_cheek
        ELSE get_region_landmarks(region, FALSE)
    ELSE IF Contains(Lower(region), KW.t) /\ Contains(Lower(region), KW.zone)
        THEN LANDMARK_INDICES.t_zone
    ELSE get_region_landmarks(region, FALSE)

\* the annotation loop leaving dark-circle issues to the helper's own
\* dark-circle rule, which answers with the under-eye sets
ResolveIndices_ViaHelper(type, region) ==
    IF IsDarkCircle(type) THEN get_region_landmarks(region, TRUE)
    ELSE IF Lower(type) \in UNEVEN_TONE_TYPES THEN UnevenToneIndices(region)
    ELSE get_region_landmarks(region, FALSE)

\* the annotation loop with acne added to the types that get the broader
\* regions of uneven skin tone
ResolveIndices_AcneAsTone(type, region) ==
    IF IsDarkCircle(type) THEN TearTroughBySide(region)
    ELSE IF Lower(type) \in UNEVEN_TONE_TYPES \cup { <<"a", "c", "n", "e">> } THEN UnevenToneIndices(region)
    ELSE get_region_landmarks(region, FALSE)

\* the indices the annotation loop resolves for one issue
ResolveIndices(type, region) ==
    IF IsDarkCircle(type) THEN TearTroughBySide(region)
    ELSE IF Lower(type) \in UNEVEN_TONE_TYPES THEN UnevenToneIndices(region)
    ELSE get_region_landmarks(region, FALSE)

(***************************************************************************)
(* Colours, geometry and the curve helper.                                 *)
(***************************************************************************)
SEVERITY_COLORS ==
    [ mild |-> <<0, 255, 255>>,
      moderate |-> <<0, 165, 255>>,
      severe |-> <<0, 0, 255>>,
      critical |-> <<128, 0, 128>> ]

\* the lookup without lower(): the severity is matched as the caller spelt it
SeverityColor_CaseSensitive(severity) ==
    IF severity = <<"m", "i", "l", "d">> THEN SEVERITY_COLORS.mild
    ELSE IF severity = <<"m", "o", "d", "e", "r", "a", "t", "e">> THEN SEVERITY_COLORS.moderate
    ELSE IF severity = <<"s", "e", "v", "e", "r", "e">> THEN SEVERITY_COLORS.severe
    ELSE IF severity = <<"c", "r", "i", "t", "i", "c", "a", "l">> THEN SEVERITY_COLORS.critical
    ELSE <<255, 255, 255>>

\* severity_colors.get(issue.severity.lower(), (255, 255, 255))
SeverityColor(severity) ==
    LET s == Lower(severity) IN
    IF s = <<"m", "i", "l", "d">> THEN SEVERITY_COLORS.mild
    ELSE IF s = <<"m", "o", "d", "e", "r", "a", "t", "e">> THEN SEVERITY_COLORS.moderate
    ELSE IF s = <<"s", "e", "v", "e", "r", "e">> THEN SEVERITY_COLORS.severe
    ELSE IF s = <<"c", "r", "i", "t", "i", "c", "a", "l">> THEN SEVERITY_COLORS.critical
    ELSE <<255, 255, 255>>

\* the annotate endpoint of main.py shrinks images wider than this
max_annotation_width == 1024

\* a detector of the 68 landmarks of the dlib predictor
NumFaceLandmarks_Dlib68 == 68

\* number of landmarks of a face the detector returns: FaceMesh is created
\* with refine_landmarks=True, which adds the 10 iris landmarks to the 468 of
\* the mesh
NumFaceLandmarks == 468 + 10

\* denominator of the normalised landmark coordinates of the detector
LmUnit == 4096

\* normalised landmark of a detected face, in 1/LmUnit: "spread" places the
\* landmarks apart from each other, "collapsed" places them all on one spot
LmX(face, index) == IF face = "collapsed" THEN 2048 ELSE index * 8 + 5

LmY(face, index) == IF face = "collapsed" THEN 2048 ELSE ((index * index) % 509) * 8 + 3

\* x, y = int(lm.x * w), int(lm.y * h) for every resolved index
PixelPoints(indices, face, w, h) ==
    [n \in 1..Len(indices) |->
        <<(LmX(face, indices[n]) * w) \div LmUnit, (LmY(face, indices[n]) * h) \div LmUnit>>]

\* int(point.x * scale), int(point.y * scale) with scale = 1024 / width
ScalePoints(points, width) ==
    [n \in 1..Len(points) |->
        <<(points[n][1] * max_annotation_width) \div width,
          (points[n][2] * max_annotation_width) \div width>>]

Reverse(s) == [n \in 1..Len(s) |-> s[Len(s) + 1 - n]]

\* points[np.argsort(points[:, 0])]: position n holds the point with n - 1
\* points before it (smaller x, or equal x and earlier in the input)
SortByX(points) ==
    LET before(a, b) == points[a][1] < points[b][1] \/ (points[a][1] = points[b][1] /\ a < b)
        rank(a) == Cardinality({b \in 1..Len(points) : before(b, a)}) + 1
    IN [n \in 1..Len(points) |-> points[CHOOSE a \in 1..Len(points) : rank(a) = n]]

ShiftY(points, dy) == [n \in 1..Len(points) |-> <<points[n][1], points[n][2] + dy>>]

\* upward_shift = int(h * 0.025)
UpwardShift(h) == (h * 25) \div 1000

\* offset_y = int(h * 0.05)
OffsetY(h) == (h * 5) \div 100

\* the crescent loop with the lower edge left in left-to-right order
CrescentLoop_NoReverse(points, h) ==
    LET top == ShiftY(SortByX(points), 0 - UpwardShift(h))
    IN top \o ShiftY(top, OffsetY(h))

\* the loop of a crescent before any smoothing: the shifted upper edge left to
\* right, then the offset lower edge right to left
CrescentLoop(points, h) ==
    LET top == ShiftY(SortByX(points), 0 - UpwardShift(h))
    IN top \o Reverse(ShiftY(top, OffsetY(h)))

\* number of vertices cv2.convexHull returns, as 1, 2 or 3 (three or more)
HullVertexClass(points) ==
    LET cross(a, b, c) == (b[1] - a[1]) * (c[2] - a[2]) - (b[2] - a[2]) * (c[1] - a[1])
        others == {n \in 1..Len(points) : points[n] # points[1]}
    IN IF others = {} THEN 1
       ELSE LET far == points[CHOOSE n \in others : TRUE]
            IN IF \A n \in 1..Len(points) : cross(points[1], far, points[n]) = 0
               THEN 2 ELSE 3

\* the curve evaluated at the parameters of the input points, not resampled
get_smooth_curve_NoResample(count, fit) ==
    IF count < 3 THEN [smoothed |-> "none", n |-> count]
    ELSE IF fit = "ok" THEN [smoothed |-> "full", n |-> count]
    ELSE [smoothed |-> "none", n |-> count]

\* get_smooth_curve: count is len(points); fit is the outcome of splprep/splev
get_smooth_curve(count, fit) ==
    IF count < 3 THEN [smoothed |-> "none", n |-> count]
    ELSE IF fit = "ok" THEN [smoothed |-> "full", n |-> 100]
    ELSE [smoothed |-> "none", n |-> count]

\* the primitive the loop of main.py draws for issue k from its points
\* (len(points) > 0); fit is the outcome of the spline calls of this issue:
\* "ok", "fit_fail" (the first fit raises; for a crescent, anything raised
\* inside the outer try) or "resmooth_fail" (the closing fit of a crescent)
Primitive(k, issue, points, h, fit) ==
    LET region == Lower(issue.region)
        base == [issue |-> k, color |-> SeverityColor(issue.severity)]
    IN IF IsDarkCircle(issue.type) \/ Contains(region, KW.under) THEN
           IF Len(points) >= 3 THEN
               IF fit = "fit_fail" THEN
                   base @@ [shape |-> "crescent", closed |-> TRUE, smoothed |-> "none",
                            through |-> CrescentLoop(points, h),
                            n |-> 2 * Len(points), thickness |-> 2]
               ELSE IF fit = "resmooth_fail" THEN
                   base @@ [shape |-> "crescent", closed |-> TRUE, smoothed |-> "edges",
                            through |-> CrescentLoop(points, h),
                            n |-> 80, thickness |-> 2]
               ELSE
                   base @@ [shape |-> "crescent", closed |-> TRUE, smoothed |-> "full",
                            through |-> CrescentLoop(points, h),
                            n |-> 200, thickness |-> 2]
           ELSE
               base @@ [shape |-> "arc", closed |-> FALSE, smoothed |-> "none",
                        through |-> SortByX(points), n |-> Len(points), thickness |-> 2]
       ELSE IF Contains(region, KW.eye) \/ Contains(region, KW.lip) THEN
           base @@ get_smooth_curve(Len(points), fit)
                @@ [shape |-> "contour", closed |-> TRUE, through |-> points, thickness |-> 1]
       ELSE
           base @@ get_smooth_curve(HullVertexClass(points), fit)
                @@ [shape |-> "hull_contour", closed |-> TRUE, through |-> points,
                    thickness |-> 1]

\* the filled polygon the loop of v2.py draws for issue k (len(points) > 0)
PrimitiveV2(k, issue) ==
    [issue |-> k, color |-> SeverityColor(issue.severity), shape |-> "filled_polygon",
     closed |-> TRUE, smoothed |-> "none", through |-> issue.points,
     n |-> Len(issue.points), thickness |-> 3]

\* issue.type.replace('_', ' ').title()
IssueLabel(type) == Title(ReplaceUnderscore(type))

LegendItem(k, issue) ==
    [number |-> k, label |-> IssueLabel(issue.type), severity |-> issue.severity,
     color |-> SeverityColor(issue.severity)]

\* the legend loop taking over the continue of v2.py: an issue without
\* points gets no item
LegendItems_SkipEmpty(list) ==
    LET kept == {k \in 1..Len(list) : Len(list[k].points) > 0}
        nth(n) == CHOOSE k \in kept : Cardinality({j \in kept : j < k}) = n - 1
    IN [n \in 1..Cardinality(kept) |-> LegendItem(nth(n), list[nth(n)])]

\* the legend loop of main.py: one item per issue
LegendItems(list) == [k \in 1..Len(list) |-> LegendItem(k, list[k])]

\* text = f"{item['label']} ({item['severity']})" next to the numbered marker
LegendRow(item) ==
    [number |-> item.number, color |-> item.color,
     text |-> item.label \o <<" ", "(">> \o item.severity \o <<")">>]

\* the legend drawing of both versions: one row per legend item
LegendRows(items) == [k \in 1..Len(items) |-> LegendRow(items[k])]

(***************************************************************************)
(* Inputs of the model.                                                    *)
(***************************************************************************)
\* words the region labels of the resolver harness are made of
Vocabulary ==
    { <<"l", "e", "f", "t">>, <<"r", "i", "g", "h", "t">>, <<"e", "y", "e">>, <<"u", "n", "d", "e", "r">>, <<"_">>, <<" ">>, <<"l", "i", "p">>, <<"m", "o", "u", "t", "h">>, <<"e", "y", "e", "b", "r", "o", "w">>,
      <<"n", "o", "s", "e">>, <<"f", "o", "r", "e", "h", "e", "a", "d">>, <<"t", "_", "z", "o", "n", "e">>, <<"t", "-", "z", "o", "n", "e">>, <<"z", "o", "n", "e">>, <<"c", "h", "e", "e", "k">>, <<"c", "h", "i", "n">>,
      <<"L", "e", "f", "t">>, <<"E", "Y", "E">>, <<"l", "e", "f", "t", "_", "e", "y", "e">>, <<"r", "i", "g", "h", "t", "_", "e", "y", "e">> }

RegionLabels ==
    { Concat(ws) : ws \in UNION { [1..n -> Vocabulary] : n \in 0..MaxWords } }

IssueTypes ==
    { <<"d", "a", "r", "k", "_", "c", "i", "r", "c", "l", "e", "s">>, <<"D", "a", "r", "k", " ", "C", "i", "r", "c", "l", "e", "s">>, <<"u", "n", "d", "e", "r", " ", "e", "y", "e">>, <<"a", "c", "n", "e">>, <<"w", "r", "i", "n", "k", "l", "e", "s">>,
      <<"u", "n", "e", "v", "e", "n", "_", "s", "k", "i", "n", "_", "t", "o", "n", "e">>, <<"H", "y", "p", "e", "r", "p", "i", "g", "m", "e", "n", "t", "a", "t", "i", "o", "n">> }

\* points a caller sends along with an issue
CallerPoints == << <<100, 200>>, <<1201, 333>> >>

\* the issues the requests of the model are made of
IssueSet ==
    { [type |-> <<"d", "a", "r", "k", "_", "c", "i", "r", "c", "l", "e", "s">>, region |-> <<"l", "e", "f", "t", "_", "e", "y", "e">>, severity |-> <<"m", "o", "d", "e", "r", "a", "t", "e">>,
       visible_in |-> "front", points |-> <<>>],
      [type |-> <<"D", "a", "r", "k", " ", "C", "i", "r", "c", "l", "e", "s">>, region |-> <<"r", "i", "g", "h", "t", "_", "u", "n", "d", "e", "r", "_", "e", "y", "e">>, severity |-> <<"M", "o", "d", "e", "r", "a", "t", "e">>,
       visible_in |-> "front", points |-> CallerPoints],
      [type |-> <<"a", "c", "n", "e">>, region |-> <<"f", "o", "r", "e", "h", "e", "a", "d">>, severity |-> <<"s", "e", "v", "e", "r", "e">>,
       visible_in |-> "left", points |-> CallerPoints],
      [type |-> <<"w", "r", "i", "n", "k", "l", "e", "s">>, region |-> <<"L", "e", "f", "t", " ", "E", "y", "e">>, severity |-> <<"m", "i", "l", "d">>,
       visible_in |-> "front", points |-> <<>>],
      [type |-> <<"u", "n", "e", "v", "e", "n", "_", "s", "k", "i", "n", "_", "t", "o", "n", "e">>, region |-> <<"l", "e", "f", "t", "_", "c", "h", "e", "e", "k">>, severity |-> <<"e", "x", "t", "r", "e", "m", "e">>,
       visible_in |-> "right", points |-> CallerPoints],
      [type |-> <<"r", "e", "d", "n", "e", "s", "s">>, region |-> <<"u", "p", "p", "e", "r", "_", "l", "i", "p">>, severity |-> <<"C", "R", "I", "T", "I", "C", "A", "L">>,
       visible_in |-> "front", points |-> <<>>] }

IssueLists == UNION { [1..n -> IssueSet] : n \in 0..MaxIssues }

\* width and height of the images a URL can hold
ImageSizes == { <<640, 480>>, <<2048, 1536>> }

\* what face_mesh.process can report
FaceOutcomes == { "none", "spread", "collapsed" }

(***************************************************************************)
(* State.                                                                  *)
(***************************************************************************)
VARIABLES
    version,        \* "main" or "v2": the service that got the request
    pc,             \* position of the request in the endpoint
    issues,         \* request.issues, as the endpoint and the routine mutate it
    request_issues, \* the issues as the caller sent them
    image,          \* image.width, image.height of the decoded image
    image_array,    \* width, height of the array handed to the routine
    face,           \* results.multi_face_landmarks: "unset", "none" or a face
    steps,          \* the image operations performed so far, in order
    resolved,       \* indices resolved so far, one entry per processed issue
    prims,          \* primitives drawn on annotated_bgr so far
    legend_items,   \* legend_items of the routine
    legend_rows,    \* rows drawn into the legend panel
    idx,            \* idx of the issue loop (1-based)
    fit_log,        \* outcome of the spline fit of every issue drawn so far
    faulted,        \* idx of the issue whose drawing raised, 0 if none did
    response,       \* what the caller receives
    q_type,         \* resolver harness: issue type of the query
    q_region,       \* resolver harness: region label of the query
    q_out,          \* resolver harness: the answers
    q_done,         \* resolver harness: the query has been answered
    q_prim,         \* resolver harness: what the loop draws for the query
    reqs,           \* two concurrent requests: the state of each of them
    shared          \* two concurrent requests: the globals of the module and
                    \* the request whose handler the event loop is running

vars == <<version, pc, issues, request_issues, image, image_array, face, steps,
          resolved, prims, legend_items, legend_rows, idx, fit_log, faulted, response,
          q_type, q_region, q_out, q_done, q_prim, reqs, shared>>

request_vars == <<version, pc, issues, request_issues, image, image_array, face, steps,
                  resolved, prims, legend_items, legend_rows, idx, fit_log, faulted, response>>

query_vars == <<q_type, q_region, q_out, q_done, q_prim>>

pair_vars == <<reqs, shared>>

NoResponse == [status |-> "none"]

IdleRequest ==
    /\ pc = "request"
    /\ image = [width |-> 0, height |-> 0]
    /\ image_array = [width |-> 0, height |-> 0]
    /\ face = "unset"
    /\ steps = <<>>
    /\ resolved = <<>>
    /\ prims = <<>>
    /\ legend_items = <<>>
    /\ legend_rows = <<>>
    /\ idx = 1
    /\ fit_log = <<>>
    /\ faulted = 0
    /\ response = NoResponse

NoAnswer == [indices |-> <<>>, plain |-> <<>>, forced |-> <<>>]

\* nothing drawn yet
NoPrimitive == [shape |-> "none"]

IdleQuery ==
    /\ q_type = <<>>
    /\ q_region = <<>>
    /\ q_out = NoAnswer
    /\ q_done = FALSE
    /\ q_prim = NoPrimitive

\* no pair of concurrent requests is being served
IdlePair ==
    /\ reqs = <<>>
    /\ shared = [face_mesh |-> <<>>, LANDMARK_INDICES |-> LANDMARK_INDICES, running |-> 0]

\* longest issue list of the requests with long lists
MaxLegendIssues == 5

\* the issues the long lists are made of
LongIssueSet ==
    { [type |-> <<"a", "c", "n", "e">>, region |-> <<"f", "o", "r", "e", "h", "e", "a", "d">>, severity |-> <<"s", "e", "v", "e", "r", "e">>,
       visible_in |-> "left", points |-> CallerPoints],
      [type |-> <<"r", "e", "d", "n", "e", "s", "s">>, region |-> <<"u", "p", "p", "e", "r", "_", "l", "i", "p">>, severity |-> <<"C", "R", "I", "T", "I", "C", "A", "L">>,
       visible_in |-> "front", points |-> <<>>] }

\* issue lists as long as and longer than four issues
LongIssueLists == UNION { [1..n -> LongIssueSet] : n \in 4..MaxLegendIssues }

\* a request with a long issue list has arrived at one of the two services
InitLong ==
    /\ version \in {"main", "v2"}
    /\ issues \in LongIssueLists
    /\ request_issues = issues
    /\ IdleRequest
    /\ IdleQuery
    /\ IdlePair

\* a request has arrived at one of the two services
Init ==
    /\ version \in {"main", "v2"}
    /\ issues \in IssueLists
    /\ request_issues = issues
    /\ IdleRequest
    /\ IdleQuery
    /\ IdlePair

(***************************************************************************)
(* The endpoint annotate_skin_issues_from_url.                             *)
(***************************************************************************)
\* the handler without `except HTTPException: raise`: its own 400 is caught
\* by `except Exception` and turned into a 500
Raise400_Wrapped(detail) ==
    /\ pc' = "responded"
    /\ response' = [status |-> "error", code |-> 500, detail |-> "Internal server error"]

\* raise HTTPException(400, detail): passes the outer handler unchanged
Raise400(detail) ==
    /\ pc' = "responded"
    /\ response' = [status |-> "error", code |-> 400, detail |-> detail]

\* any other exception: the outer handler turns it into a 500
Raise500 ==
    /\ pc' = "responded"
    /\ response' = [status |-> "error", code |-> 500, detail |-> "Internal server error"]

ParseUrl ==
    /\ pc = "request"
    /\ \E well_formed \in BOOLEAN :
        IF well_formed THEN pc' = "download" /\ UNCHANGED response
        ELSE Raise400("Invalid image URL provided")
    /\ UNCHANGED <<version, issues, request_issues, image, image_array, face, steps,
                   resolved, prims, legend_items, legend_rows, idx, fit_log, faulted, query_vars, pair_vars>>

\* requests.get: main.py compares status_code and lets a transport error
\* escape; v2.py catches RequestException around get and raise_for_status
Download ==
    /\ pc = "download"
    /\ \E outcome \in {"ok", "bad_status", "transport_error"} :
        IF outcome = "ok" THEN pc' = "content_type" /\ UNCHANGED response
        ELSE IF outcome = "bad_status" \/ version = "v2"
            THEN Raise400("Failed to download image from URL")
        ELSE Raise500
    /\ steps' = Append(steps, "download")
    /\ UNCHANGED <<version, issues, request_issues, image, image_array, face,
                   resolved, prims, legend_items, legend_rows, idx, fit_log, faulted, query_vars, pair_vars>>

CheckContentType ==
    /\ pc = "content_type"
    /\ \E is_image \in BOOLEAN :
        IF is_image THEN pc' = "decode" /\ UNCHANGED response
        ELSE Raise400("URL does not point to an image file")
    /\ UNCHANGED <<version, issues, request_issues, image, image_array, face, steps,
                   resolved, prims, legend_items, legend_rows, idx, fit_log, faulted, query_vars, pair_vars>>

\* Image.open, convert('RGB'), np.array
DecodeImage ==
    /\ pc = "decode"
    /\ \/ /\ Raise500
          /\ steps' = Append(steps, "decode")
          /\ UNCHANGED <<image, image_array>>
       \/ \E size \in ImageSizes :
          /\ image' = [width |-> size[1], height |-> size[2]]
          /\ image_array' = [width |-> size[1], height |-> size[2]]
          /\ steps' = steps \o <<"decode", "convert">>
          /\ pc' = "check_issues"
          /\ UNCHANGED response
    /\ UNCHANGED <<version, issues, request_issues, face,
                   resolved, prims, legend_items, legend_rows, idx, fit_log, faulted, query_vars, pair_vars>>

\* the endpoint without its check of the issue list
CheckIssues_NoReject ==
    /\ pc = "check_issues"
    /\ pc' = (IF version = "main" THEN "resize" ELSE "v2_loop")
    /\ UNCHANGED <<version, issues, request_issues, image, image_array, face, steps,
                   resolved, prims, legend_items, legend_rows, idx, fit_log, faulted,
                   response, query_vars, pair_vars>>

\* if not issues: raise 400
CheckIssues ==
    /\ pc = "check_issues"
    /\ IF issues = <<>> THEN Raise400("No issues provided for annotation")
       ELSE pc' = (IF version = "main" THEN "resize" ELSE "v2_loop") /\ UNCHANGED response
    /\ UNCHANGED <<version, issues, request_issues, image, image_array, face, steps,
                   resolved, prims, legend_items, legend_rows, idx, fit_log, faulted, query_vars, pair_vars>>

\* main.py only: shrink a wide image and scale the caller's points with it
ResizeImage ==
    /\ pc = "resize"
    /\ IF image_array.width > max_annotation_width THEN
          /\ image_array' =
                [width |-> max_annotation_width,
                 height |-> (image_array.height * max_annotation_width) \div image_array.width]
          /\ issues' = [k \in 1..Len(issues) |->
                [issues[k] EXCEPT !.points = ScalePoints(@, image_array.width)]]
          /\ steps' = Append(steps, "resize")
       ELSE UNCHANGED <<image_array, issues, steps>>
    /\ pc' = "detect"
    /\ UNCHANGED <<version, request_issues, image, face,
                   resolved, prims, legend_items, legend_rows, idx, fit_log, faulted, response, query_vars, pair_vars>>

(***************************************************************************)
(* The routine annotate_image_with_issues of main.py.                      *)
(***************************************************************************)
\* the routine returning the copy of the image as soon as no face is found
DetectFace_ReturnEarly ==
    /\ pc = "detect"
    /\ \E outcome \in FaceOutcomes :
        /\ face' = outcome
        /\ pc' = IF outcome = "none" THEN "encode"
                 ELSE IF issues = <<>> THEN "legend" ELSE "resolve"
    /\ steps' = Append(steps, "detect")
    /\ UNCHANGED <<version, issues, request_issues, image, image_array,
                   resolved, prims, legend_items, legend_rows, idx, fit_log, faulted, response,
                   query_vars, pair_vars>>

\* results = face_mesh.process(image_array); annotated = image_array.copy()
DetectFace ==
    /\ pc = "detect"
    /\ \E outcome \in FaceOutcomes :
        /\ face' = outcome
        /\ pc' = IF outcome = "none" \/ issues = <<>> THEN "legend" ELSE "resolve"
    /\ steps' = Append(steps, "detect")
    /\ UNCHANGED <<version, issues, request_issues, image, image_array,
                   resolved, prims, legend_items, legend_rows, idx, fit_log, faulted, response,
                   query_vars, pair_vars>>

\* the resolved points added to the caller's points instead of replacing them
OverwritePoints_Extend(issue, points) == [issue EXCEPT !.points = @ \o points]

\* issue.dlib_68_facial_landmarks = [IssuePoint(x, y) for p in points]
OverwritePoints(issue, points) == [issue EXCEPT !.points = points]

\* first half of one loop iteration: indices, points, and the overwrite of
\* issue.dlib_68_facial_landmarks
ResolveIssue ==
    /\ pc = "resolve"
    /\ LET indices == ResolveIndices(issues[idx].type, issues[idx].region)
           points == PixelPoints(indices, face, image_array.width, image_array.height)
       IN /\ resolved' = Append(resolved, indices)
          /\ issues' = [issues EXCEPT ![idx] = OverwritePoints(@, points)]
    /\ pc' = "draw"
    /\ UNCHANGED <<version, request_issues, image, image_array, face, steps,
                   prims, legend_items, legend_rows, idx, fit_log, faulted, response, query_vars, pair_vars>>

\* splprep rejects an input in which two consecutive points coincide
Degenerate(points) == \E m \in 1..(Len(points) - 1) : points[m] = points[m + 1]

\* the outcomes the spline calls of one issue can have: splprep is not called
\* on fewer than 3 points, raises on a degenerate input, and is otherwise a
\* library call that may raise
FitOutcomes(issue, points) ==
    IF IsDarkCircle(issue.type) \/ Contains(Lower(issue.region), KW.under)
    THEN IF Len(points) < 3 THEN {"not_called"}
         ELSE IF Degenerate(SortByX(points)) THEN {"fit_fail"}
         ELSE {"ok", "fit_fail", "resmooth_fail"}
    ELSE IF Contains(Lower(issue.region), KW.eye) \/ Contains(Lower(issue.region), KW.lip)
    THEN IF Len(points) < 3 THEN {"not_called"}
         ELSE IF Degenerate(points) THEN {"fit_fail"}
         ELSE {"ok", "fit_fail"}
    ELSE IF HullVertexClass(points) < 3 THEN {"not_called"} ELSE {"ok", "fit_fail"}

\* the loop running the face detection again before every further issue
AfterDraw_Redetect(k, n) == IF k = n THEN "legend" ELSE "detect"

\* where the loop goes after issue k of n
AfterDraw(k, n) == IF k = n THEN "legend" ELSE "resolve"

\* second half of one loop iteration: the primitive of the issue; fault is
\* an exception out of a call no try block of the routine encloses
\* (cv2.convexHull, the final cv2.polylines of the branch)
DrawIssue ==
    /\ pc = "draw"
    /\ IF Len(issues[idx].points) > 0 THEN
          \E fit \in FitOutcomes(issues[idx], issues[idx].points), fault \in BOOLEAN :
              /\ fit_log' = Append(fit_log, fit)
              /\ steps' = Append(steps, "draw")
              /\ IF fault THEN Raise500 /\ faulted' = idx /\ UNCHANGED <<prims, idx>>
                 ELSE /\ prims' = Append(prims, Primitive(idx, issues[idx], issues[idx].points,
                                                          image_array.height, fit))
                      /\ idx' = idx + 1
                      /\ pc' = AfterDraw(idx, Len(issues))
                      /\ UNCHANGED <<response, faulted>>
       ELSE /\ fit_log' = Append(fit_log, "not_called")
            /\ idx' = idx + 1
            /\ pc' = AfterDraw(idx, Len(issues))
            /\ UNCHANGED <<prims, steps, response, faulted>>
    /\ UNCHANGED <<version, issues, request_issues, image, image_array, face,
                   resolved, legend_items, legend_rows, query_vars, pair_vars>>

(***************************************************************************)
(* The routine annotate_image_with_issues of v2.py.                        *)
(***************************************************************************)
\* one loop iteration: an issue without points is skipped by continue, before
\* its legend item is appended
V2DrawIssue ==
    /\ pc = "v2_loop"
    /\ idx <= Len(issues)
    /\ IF Len(issues[idx].points) = 0 THEN
          /\ idx' = idx + 1
          /\ UNCHANGED <<prims, legend_items, steps, pc, response, faulted>>
       ELSE
          \E fault \in BOOLEAN :
              /\ steps' = Append(steps, "draw")
              /\ IF fault THEN Raise500 /\ faulted' = idx /\ UNCHANGED <<prims, legend_items, idx>>
                 ELSE /\ prims' = Append(prims, PrimitiveV2(idx, issues[idx]))
                      /\ legend_items' = Append(legend_items, LegendItem(idx, issues[idx]))
                      /\ idx' = idx + 1
                      /\ UNCHANGED <<pc, response, faulted>>
    /\ UNCHANGED <<version, issues, request_issues, image, image_array, face,
                   resolved, legend_rows, fit_log, query_vars, pair_vars>>

V2LoopEnd ==
    /\ pc = "v2_loop"
    /\ idx > Len(issues)
    /\ pc' = "legend"
    /\ UNCHANGED <<version, issues, request_issues, image, image_array, face, steps,
                   resolved, prims, legend_items, legend_rows, idx, fit_log, faulted, response,
                   query_vars, pair_vars>>

(***************************************************************************)
(* Legend, encoding and the response.                                      *)
(***************************************************************************)
\* main.py builds legend_items here, from all the issues; both versions then
\* draw the panel when legend_items is not empty
DrawLegend ==
    /\ pc = "legend"
    /\ legend_items' = IF version = "main" THEN LegendItems(issues) ELSE legend_items
    /\ legend_rows' = LegendRows(legend_items')
    /\ steps' = IF legend_items' # <<>> THEN Append(steps, "legend") ELSE steps
    /\ pc' = "encode"
    /\ UNCHANGED <<version, issues, request_issues, image, image_array, face,
                   resolved, prims, idx, fit_log, faulted, response, query_vars, pair_vars>>

\* cvtColor, Image.fromarray, save as PNG, base64
EncodeImage ==
    /\ pc = "encode"
    /\ steps' = Append(steps, "encode")
    /\ pc' = "respond"
    /\ UNCHANGED <<version, issues, request_issues, image, image_array, face,
                   resolved, prims, legend_items, legend_rows, idx, fit_log, faulted, response,
                   query_vars, pair_vars>>

\* what the encoded image shows
AnnotatedImage ==
    [width |-> image_array.width, height |-> image_array.height,
     primitives |-> prims, legend |-> legend_rows]

\* return IssueAnnotationResponse(...); the response model of v2.py has no issues
Respond ==
    /\ pc = "respond"
    /\ response' =
          IF version = "main"
          THEN [status |-> "success", code |-> 200, annotated_image |-> AnnotatedImage,
                total_issues |-> Len(issues), issues |-> issues, image_info |-> image]
          ELSE [status |-> "success", code |-> 200, annotated_image |-> AnnotatedImage,
                total_issues |-> Len(issues), image_info |-> image]
    /\ pc' = "responded"
    /\ UNCHANGED <<version, issues, request_issues, image, image_array, face, steps,
                   resolved, prims, legend_items, legend_rows, idx, fit_log, faulted, query_vars, pair_vars>>

Next ==
    \/ ParseUrl
    \/ Download
    \/ CheckContentType
    \/ DecodeImage
    \/ CheckIssues
    \/ ResizeImage
    \/ DetectFace
    \/ ResolveIssue
    \/ DrawIssue
    \/ V2DrawIssue
    \/ V2LoopEnd
    \/ DrawLegend
    \/ EncodeImage
    \/ Respond

Spec == Init /\ [][Next]_vars

\* the same request state machine on the long issue lists
SpecLong == InitLong /\ [][Next]_vars

(***************************************************************************)
(* Two requests to the annotate endpoint of main.py on one server.  The    *)
(* handler is a coroutine without any await: the event loop runs the       *)
(* handler of one request to its end before it starts the next one.  The   *)
(* module globals the handlers share are face_mesh and LANDMARK_INDICES.   *)
(***************************************************************************)
\* longest issue list of each of the two requests
MaxPairIssues == 1

PairIssueSet ==
    { [type |-> <<"a", "c", "n", "e">>, region |-> <<"f", "o", "r", "e", "h", "e", "a", "d">>, severity |-> <<"s", "e", "v", "e", "r", "e">>,
       visible_in |-> "left", points |-> CallerPoints],
      [type |-> <<"a", "c", "n", "e">>, region |-> <<"f", "o", "r", "e", "h", "e", "a", "d">>, severity |-> <<"s", "e", "v", "e", "r", "e">>,
       visible_in |-> "left", points |-> <<>>],
      [type |-> <<"w", "r", "i", "n", "k", "l", "e", "s">>, region |-> <<"E", "y", "e">>, severity |-> <<"m", "i", "l", "d">>,
       visible_in |-> "front", points |-> <<>>] }

PairIssueLists == UNION { [1..n -> PairIssueSet] : n \in 1..MaxPairIssues }

\* what the detector reports on the image of a request when it looks at that
\* image alone
PairScenes == { "none", "spread" }

\* FaceMesh in video mode: the landmarks of a frame are tracked into the next
static_image_mode_Video == FALSE

\* FaceMesh(static_image_mode=True, ...): every image is detected afresh
static_image_mode == TRUE

\* the handle startup_event stores in the global face_mesh; the global is a
\* sequence here, empty while it is None
FaceMeshHandle == [static_image_mode |-> static_image_mode, tracked |-> "unset"]

\* face_mesh.process(image_array) on an image showing scene: the result and
\* the handle after the call
Process(handle, scene) ==
    LET out == IF handle.static_image_mode \/ handle.tracked \in {"unset", "none"}
               THEN scene ELSE handle.tracked
    IN [face |-> out,
        handle |-> IF handle.static_image_mode THEN handle
                   ELSE [handle EXCEPT !.tracked = out]]

\* the keys of LANDMARK_INDICES the resolution of an issue reads: one entry,
\* or a left and a right entry to concatenate
ResolveKeys(type, region) ==
    LET keys == DOMAIN LANDMARK_INDICES
        indices == ResolveIndices(type, region)
    IN IF \E a \in keys : LANDMARK_INDICES[a] = indices
       THEN <<CHOOSE a \in keys : LANDMARK_INDICES[a] = indices>>
       ELSE CHOOSE ks \in keys \X keys :
                LANDMARK_INDICES[ks[1]] \o LANDMARK_INDICES[ks[2]] = indices

\* the entries of the global table under the keys, concatenated into a new list
ReadTable(table, keys) == Concat([n \in 1..Len(keys) |-> table[keys[n]]])

PairRequests ==
    [ issues : PairIssueLists, image : { [width |-> s[1], height |-> s[2]] : s \in ImageSizes },
      scene : PairScenes ]

\* two requests are queued, the server has not started up yet
InitPair ==
    /\ version = "main"
    /\ issues = <<>>
    /\ request_issues = <<>>
    /\ IdleRequest
    /\ IdleQuery
    /\ \E in \in [1..2 -> PairRequests] :
          reqs = [r \in 1..2 |->
                    [pc |-> "queued", issues |-> in[r].issues, request_issues |-> in[r].issues,
                     image |-> in[r].image, image_array |-> in[r].image, scene |-> in[r].scene,
                     face |-> "unset", idx |-> 1, prims |-> <<>>, fit_log |-> <<>>,
                     legend_rows |-> <<>>, response |-> NoResponse]]
    /\ shared = [face_mesh |-> <<>>, LANDMARK_INDICES |-> LANDMARK_INDICES, running |-> 0]

\* startup_event: face_mesh = mp_face_mesh.FaceMesh(...); requests are served
\* once it has returned
Startup ==
    /\ shared.face_mesh = <<>>
    /\ shared' = [shared EXCEPT !.face_mesh = <<FaceMeshHandle>>]
    /\ UNCHANGED <<reqs, request_vars, query_vars>>

\* the event loop starts the handler of request r: the image is there and
\* the list is not empty; a wide image is shrunk and the points scaled
PairBegin(r) ==
    /\ shared.face_mesh # <<>>
    /\ shared.running = 0
    /\ reqs[r].pc = "queued"
    /\ LET q == reqs[r]
           wide == q.image.width > max_annotation_width
       IN reqs' = [reqs EXCEPT ![r] =
             [q EXCEPT !.pc = "detect",
                       !.image_array =
                           IF wide
                           THEN [width |-> max_annotation_width,
                                 height |-> (q.image.height * max_annotation_width)
                                                \div q.image.width]
                           ELSE @,
                       !.issues =
                           IF wide
                           THEN [k \in 1..Len(q.issues) |->
                                   [q.issues[k] EXCEPT !.points = ScalePoints(@, q.image.width)]]
                           ELSE @]]
    /\ shared' = [shared EXCEPT !.running = r]
    /\ UNCHANGED <<request_vars, query_vars>>

\* results = face_mesh.process(image_array) through the global handle
PairDetect(r) ==
    /\ shared.running = r
    /\ reqs[r].pc = "detect"
    /\ LET out == Process(shared.face_mesh[1], reqs[r].scene)
       IN /\ reqs' = [reqs EXCEPT ![r].face = out.face,
                                  ![r].pc = IF out.face = "none" THEN "legend" ELSE "issue"]
          /\ shared' = [shared EXCEPT !.face_mesh = <<out.handle>>]
    /\ UNCHANGED <<request_vars, query_vars>>

\* one iteration of the issue loop: the indices out of the global table, the
\* points, the overwrite of the issue's points, and the primitive
PairIssue(r) ==
    /\ shared.running = r
    /\ reqs[r].pc = "issue"
    /\ LET q == reqs[r]
           k == q.idx
           indices == ReadTable(shared.LANDMARK_INDICES,
                                ResolveKeys(q.issues[k].type, q.issues[k].region))
           points == PixelPoints(indices, q.face, q.image_array.width, q.image_array.height)
           issue == OverwritePoints(q.issues[k], points)
       IN \E fit \in FitOutcomes(issue, points), fault \in BOOLEAN :
            IF fault
            THEN /\ reqs' = [reqs EXCEPT ![r] =
                      [q EXCEPT !.issues[k] = issue, !.fit_log = Append(@, fit),
                                !.pc = "responded",
                                !.response = [status |-> "error", code |-> 500,
                                              detail |-> "Internal server error"]]]
                 /\ shared' = [shared EXCEPT !.running = 0]
            ELSE /\ reqs' = [reqs EXCEPT ![r] =
                      [q EXCEPT !.issues[k] = issue, !.fit_log = Append(@, fit),
                                !.prims = Append(@, Primitive(k, issue, points,
                                                              q.image_array.height, fit)),
                                !.idx = k + 1,
                                !.pc = IF k = Len(q.issues) THEN "legend" ELSE "issue"]]
                 /\ UNCHANGED shared
    /\ UNCHANGED <<request_vars, query_vars>>

\* the legend, the encoding and the response; the handler returns
PairFinish(r) ==
    /\ shared.running = r
    /\ reqs[r].pc = "legend"
    /\ LET q == reqs[r]
           rows == LegendRows(LegendItems(q.issues))
       IN reqs' = [reqs EXCEPT ![r] =
             [q EXCEPT !.legend_rows = rows,
                       !.pc = "responded",
                       !.response =
                           [status |-> "success", code |-> 200,
                            annotated_image |->
                                [width |-> q.image_array.width, height |-> q.image_array.height,
                                 primitives |-> q.prims, legend |-> rows],
                            total_issues |-> Len(q.issues), issues |-> q.issues,
                            image_info |-> q.image]]]
    /\ shared' = [shared EXCEPT !.running = 0]
    /\ UNCHANGED <<request_vars, query_vars>>

NextPair ==
    \/ Startup
    \/ \E r \in 1..2 : PairBegin(r)
    \/ \E r \in 1..2 : PairDetect(r)
    \/ \E r \in 1..2 : PairIssue(r)
    \/ \E r \in 1..2 : PairFinish(r)

SpecPair == InitPair /\ [][NextPair]_vars

(***************************************************************************)
(* The resolver harness: one query of the region resolution.               *)
(***************************************************************************)
InitQuery ==
    /\ version = "main"
    /\ issues = <<>>
    /\ request_issues = <<>>
    /\ IdleRequest
    /\ q_type \in IssueTypes
    /\ q_region \in RegionLabels
    /\ q_out = NoAnswer
    /\ q_done = FALSE
    /\ q_prim = NoPrimitive
    /\ IdlePair

Resolve ==
    /\ ~q_done
    /\ q_out' = [indices |-> ResolveIndices(q_type, q_region),
                 plain |-> get_region_landmarks(q_region, FALSE),
                 forced |-> get_region_landmarks(q_region, TRUE)]
    /\ q_done' = TRUE
    /\ UNCHANGED <<q_type, q_region, q_prim, request_vars, pair_vars>>

(***************************************************************************)
(* The drawing harness: one query resolved and then drawn.                 *)
(***************************************************************************)
\* longest region label of the drawing harness, in words
MaxDrawWords == 2

\* words the region labels of the drawing harness are made of
DrawVocabulary ==
    { <<"u", "n", "d", "e", "r">>, <<"e", "y", "e">>, <<"l", "i", "p">>, <<"m", "o", "u", "t", "h">>, <<"L", "e", "f", "t">>, <<"c", "h", "e", "e", "k">>, <<"n", "o", "s", "e">>, <<"e", "y", "e", "b", "r", "o", "w">>, <<"f", "o", "r", "e", "h", "e", "a", "d">> }

DrawLabels ==
    { Concat(ws) : ws \in UNION { [1..n -> DrawVocabulary] : n \in 0..MaxDrawWords } }

InitDraw ==
    /\ version = "main"
    /\ issues = <<>>
    /\ request_issues = <<>>
    /\ IdleRequest
    /\ q_type \in IssueTypes
    /\ q_region \in DrawLabels
    /\ q_out = NoAnswer
    /\ q_done = FALSE
    /\ q_prim = NoPrimitive
    /\ IdlePair

\* the image and the face the queries are drawn on
QueryImage == [width |-> 640, height |-> 480]

\* the rest of the loop iteration for the query: its points on a detected
\* face and the primitive drawn from them
DrawQuery ==
    /\ q_done
    /\ q_prim = NoPrimitive
    /\ LET points == PixelPoints(q_out.indices, "spread", QueryImage.width, QueryImage.height)
           issue == [type |-> q_type, region |-> q_region, severity |-> <<"m", "i", "l", "d">>,
                     visible_in |-> "front", points |-> points]
       IN \E fit \in FitOutcomes(issue, points) :
              q_prim' = Primitive(1, issue, points, QueryImage.height, fit)
    /\ UNCHANGED <<q_type, q_region, q_out, q_done, request_vars, pair_vars>>

NextQuery == Resolve

NextDraw == Resolve \/ DrawQuery

SpecDraw == InitDraw /\ [][NextDraw]_vars

SpecQuery == InitQuery /\ [][NextQuery]_vars

(***************************************************************************)
(* Properties of the region resolution (checked under SpecQuery).          *)
(***************************************************************************)
\* C1: a dark-circle issue (type compared case-insensitively) whose region
\* label contains "left" and "eye" is resolved to exactly the left
\* tear-trough indices, not to the left-eye contour nor to any other set.
C1_DarkCircleLeftEyeIsTearTrough ==
    (/\ q_done
     /\ Lower(q_type) \in DARK_CIRCLE_TYPES
     /\ Contains(Lower(q_region), <<"l", "e", "f", "t">>)
     /\ Contains(Lower(q_region), <<"e", "y", "e">>))
    => /\ q_out.indices = <<111, 117, 118, 119, 120, 121, 128, 245>>
       /\ q_out.indices # LANDMARK_INDICES.left_eye

\* a dark-circle query in mixed case whose label an ordinary issue type would
\* send to the left-eye contour
C1_Witness ==
    /\ q_done
    /\ Lower(q_type) \in DARK_CIRCLE_TYPES
    /\ q_type \notin DARK_CIRCLE_TYPES
    /\ Contains(Lower(q_region), <<"l", "e", "f", "t">>)
    /\ Contains(Lower(q_region), <<"e", "y", "e">>)
    /\ q_region # Lower(q_region)
    /\ q_out.plain = LANDMARK_INDICES.left_eye
    /\ q_out.indices = LANDMARK_INDICES.left_tear_trough

\* the label contains none of the keywords of the region rules
NoKeyword(label) ==
    \A kw \in { <<"e", "y", "e">>, <<"l", "i", "p">>, <<"m", "o", "u", "t", "h">>, <<"n", "o", "s", "e">>, <<"f", "o", "r", "e", "h", "e", "a", "d">>, <<"t", "_", "z", "o", "n", "e">>, <<"t", "-", "z", "o", "n", "e">>, <<"c", "h", "e", "e", "k">> } :
        ~Contains(Lower(label), kw)

\* C2: region resolution is total: every label and every issue type gets a
\* non-empty index sequence, and a label that matches no keyword rule gets the
\* full face-oval set from get_region_landmarks.
C2_ResolutionTotal ==
    q_done =>
        /\ Len(q_out.plain) > 0
        /\ Len(q_out.forced) > 0
        /\ Len(q_out.indices) > 0
        /\ NoKeyword(q_region) =>
              /\ q_out.plain = LANDMARK_INDICES.face_oval
              /\ q_out.forced = LANDMARK_INDICES.face_oval

\* a non-empty label without any keyword, answered with the face oval
C2_Witness ==
    /\ q_done
    /\ q_region # <<>>
    /\ NoKeyword(q_region)
    /\ Len(q_out.plain) = 36
    /\ q_out.plain = LANDMARK_INDICES.face_oval
    /\ q_out.indices = LANDMARK_INDICES.face_oval

(***************************************************************************)
(* Properties of the annotation request (checked under Spec).              *)
(***************************************************************************)
\* the routine has built its legend
LegendBuilt ==
    \/ pc \in {"encode", "respond"}
    \/ pc = "responded" /\ response.status = "success"

\* C3: whatever the issue list and whether a face was detected or not, the
\* legend of main.py has one entry per input issue; entry k has number k and
\* the label and severity of the k-th input issue.
C3_LegendMatchesIssues ==
    (version = "main" /\ LegendBuilt) =>
        /\ Len(legend_items) = Len(request_issues)
        /\ \A k \in 1..Len(legend_items) :
              /\ legend_items[k].number = k
              /\ legend_items[k].label = Title(ReplaceUnderscore(request_issues[k].type))
              /\ legend_items[k].severity = request_issues[k].severity

\* two different issues, the first one sent without points, no face detected
C3_Witness ==
    /\ version = "main"
    /\ pc = "responded"
    /\ response.status = "success"
    /\ face = "none"
    /\ Len(request_issues) = 2
    /\ request_issues[1].points = <<>>
    /\ request_issues[1].type # request_issues[2].type
    /\ legend_items[2].number = 2
    /\ legend_items[1].label # legend_items[2].label

\* C4: on a detected face, the points of every processed issue are the pixel
\* coordinates of its resolved indices, in order and of the same length,
\* whatever the caller sent; type, region, severity and visible_in are as sent;
\* when the loop is over every issue has been processed.
C4_PointsOverwritten ==
    (version = "main" /\ face \in {"spread", "collapsed"}) =>
        /\ (pc \in {"legend", "encode", "respond"}) => Len(resolved) = Len(issues)
        /\ (pc = "responded" /\ response.status = "success") =>
              Len(resolved) = Len(issues) /\ response.issues = issues
        /\ \A k \in 1..Len(resolved) :
              /\ Len(issues[k].points) = Len(resolved[k])
              /\ \A n \in 1..Len(resolved[k]) :
                    issues[k].points[n] =
                        <<(LmX(face, resolved[k][n]) * image_array.width) \div LmUnit,
                          (LmY(face, resolved[k][n]) * image_array.height) \div LmUnit>>
              /\ issues[k].type = request_issues[k].type
              /\ issues[k].region = request_issues[k].region
              /\ issues[k].severity = request_issues[k].severity
              /\ issues[k].visible_in = request_issues[k].visible_in

\* a successful request on a shrunk image whose caller had sent points
C4_Witness ==
    /\ version = "main"
    /\ pc = "responded"
    /\ response.status = "success"
    /\ face = "spread"
    /\ image.width > image_array.width
    /\ \E k \in 1..Len(issues) :
          /\ request_issues[k].points # <<>>
          /\ Len(response.issues[k].points) = 8
          /\ response.issues[k].points # request_issues[k].points

\* the request was rejected for its empty issue list
RejectedNoIssues ==
    /\ pc = "responded"
    /\ response.status = "error"
    /\ response.detail = "No issues provided for annotation"

C6_NoFaceIsDistinguishable ==
    (version = "main" /\ pc = "responded" /\ face = "none") =>
        /\ prims = <<>>
        /\ legend_rows = <<>>
        /\ response.status # "success"

\* C7 as stated: when the drawing of one issue raises, every other issue is
\* still rendered, every issue is in the legend, and the request completes
\* with a result.
C7_PerIssueIsolation ==
    (version = "main" /\ pc = "responded" /\ faulted > 0) =>
        /\ response.status = "success"
        /\ Len(legend_items) = Len(issues)
        /\ \A k \in (1..Len(issues)) \ {faulted} : \E n \in 1..Len(prims) : prims[n].issue = k

C9_AllResolvedBeforeAnyPrimitive ==
    (version = "main" /\ prims # <<>>) => Len(resolved) = Len(issues)

\* position of the request in the fixed order of its steps
Rank ==
    CASE pc = "request" -> 0
      [] pc = "download" -> 1
      [] pc = "content_type" -> 2
      [] pc = "decode" -> 3
      [] pc = "check_issues" -> 4
      [] pc = "resize" -> 5
      [] pc = "detect" -> 6
      [] pc = "resolve" -> 5 + 2 * idx
      [] pc = "draw" -> 6 + 2 * idx
      [] pc = "v2_loop" -> 5 + 2 * idx
      [] pc = "legend" -> 8 + 2 * Len(issues)
      [] pc = "encode" -> 9 + 2 * Len(issues)
      [] pc = "respond" -> 10 + 2 * Len(issues)
      [] pc = "responded" -> 11 + 2 * Len(issues)

\* C9 (amended): a request moves through its steps in one fixed order and
\* never returns to an earlier step or an earlier issue.  In main.py the two
\* phases alternate per issue: the anchors of issue k are resolved once
\* issues 1..k-1 have been drawn, and the primitive built next is that of
\* issue k.  All primitives are built before the legend, the legend before
\* the encoding, the encoding before the response.
C9_StepsInOrder ==
    [][ /\ Rank' > Rank
        /\ (resolved' # resolved) =>
              Len(fit_log) = Len(resolved) /\ Len(resolved') = Len(resolved) + 1
        /\ (version = "main" /\ prims' # prims) =>
              /\ Len(resolved) = Len(fit_log) + 1
              /\ prims' = Append(prims, prims'[Len(prims')])
              /\ prims'[Len(prims')].issue = Len(resolved)
        /\ (legend_items' # legend_items \/ legend_rows' # legend_rows) =>
              /\ pc = "legend" \/ pc = "v2_loop"
              /\ version = "main" => (face = "none" \/ Len(fit_log) = Len(issues))
        /\ (pc \in {"legend", "encode", "respond", "responded"}) =>
              prims' = prims /\ resolved' = resolved
        /\ (pc \in {"encode", "respond", "responded"}) =>
              legend_items' = legend_items /\ legend_rows' = legend_rows
      ]_vars

\* the first primitive is on the image and the second issue is yet to be resolved
C9_Witness ==
    /\ version = "main"
    /\ pc = "resolve"
    /\ idx = 2
    /\ Len(prims) = 1
    /\ Len(resolved) = 1
    /\ Len(issues) = 2

\* C10 as stated: in both versions an issue without anchor points gets no
\* primitive and still gets its legend entry, with its label and severity.
C10_ZeroPointsStillInLegend ==
    LegendBuilt =>
        \A k \in 1..Len(issues) :
            Len(issues[k].points) = 0 =>
                /\ \A n \in 1..Len(prims) : prims[n].issue # k
                /\ \E m \in 1..Len(legend_items) :
                      /\ legend_items[m].number = k
                      /\ legend_items[m].label = Title(ReplaceUnderscore(issues[k].type))
                      /\ legend_items[m].severity = issues[k].severity

(***************************************************************************)
(* Colour of an issue.                                                     *)
(***************************************************************************)
\* the colour the severity table gives a severity, in the BGR order the
\* drawing calls take: yellow, orange, red, purple, white for anything else
ColourOfSeverity(severity) ==
    CASE Lower(severity) = <<"m", "i", "l", "d">> -> <<0, 255, 255>>
      [] Lower(severity) = <<"m", "o", "d", "e", "r", "a", "t", "e">> -> <<0, 165, 255>>
      [] Lower(severity) = <<"s", "e", "v", "e", "r", "e">> -> <<0, 0, 255>>
      [] Lower(severity) = <<"c", "r", "i", "t", "i", "c", "a", "l">> -> <<128, 0, 128>>
      [] OTHER -> <<255, 255, 255>>

\* C11: the colour of an issue depends on its severity alone, compared without
\* regard to case: mild is yellow, moderate orange, severe red, critical
\* purple, anything else white; the primitive of an issue and its legend
\* marker have the same colour.
C11_ColourBySeverity ==
    /\ \A n \in 1..Len(prims) :
          prims[n].color = ColourOfSeverity(issues[prims[n].issue].severity)
    /\ \A k \in 1..Len(legend_rows) :
          /\ legend_rows[k].color = ColourOfSeverity(issues[legend_rows[k].number].severity)
          /\ \A n \in 1..Len(prims) :
                prims[n].issue = legend_rows[k].number => prims[n].color = legend_rows[k].color

\* a drawn legend whose rows and primitives show a severity in capitals, the
\* purple of critical and the white of an unknown severity
C11_Witness ==
    /\ version = "main" /\ LegendBuilt
    /\ Len(prims) = 2 /\ Len(legend_rows) = 2
    /\ issues[1].severity = <<"C", "R", "I", "T", "I", "C", "A", "L">> /\ prims[1].color = <<128, 0, 128>>
    /\ legend_rows[1].color = <<128, 0, 128>>
    /\ issues[2].severity = <<"e", "x", "t", "r", "e", "m", "e">> /\ prims[2].color = <<255, 255, 255>>
    /\ legend_rows[2].color = <<255, 255, 255>>

(***************************************************************************)
(* The issue count of the response.                                        *)
(***************************************************************************)
\* C12: the total_issues of a successful response is the number of issues for
\* which a primitive was drawn on the returned image.
C12_TotalIsRenderedCount ==
    (version = "main" /\ pc = "responded" /\ response.status = "success") =>
        response.total_issues = Cardinality({ prims[n].issue : n \in 1..Len(prims) })

(***************************************************************************)
(* Dot-like issues.                                                        *)
(***************************************************************************)
\* C14: an issue of type acne on the forehead with severity severe is drawn as
\* a cloud of about 45 points scattered inside the polygon of the region, not
\* as a contour.
C14_AcneIsScatterCloud ==
    \A n \in 1..Len(prims) :
        LET issue == issues[prims[n].issue] IN
        ( /\ version = "main"
          /\ Lower(issue.type) = <<"a", "c", "n", "e">>
          /\ Lower(issue.region) = <<"f", "o", "r", "e", "h", "e", "a", "d">>
          /\ Lower(issue.severity) = <<"s", "e", "v", "e", "r", "e">> ) =>
            /\ prims[n].shape = "scatter_cloud"
            /\ prims[n].n \in 40..50

(***************************************************************************)
(* Number of points of a closed contour.                                   *)
(***************************************************************************)
\* the primitives get_smooth_curve makes the outline of
ClosedContours == { n \in 1..Len(prims) : prims[n].shape \in {"contour", "hull_contour"} }

\* number of points handed to get_smooth_curve for a primitive: the landmarks
\* of the region, or the vertices of their hull (3 standing for 3 or more)
ContourInput(p) ==
    IF p.shape = "contour" THEN Len(p.through) ELSE HullVertexClass(p.through)

\* C15: every closed contour has 100 points whatever the number of its input
\* points, also for fewer than 3 input points and for a failing fit.
C15_AlwaysResampleCount ==
    version = "main" => \A n \in ClosedContours : prims[n].n = 100

\* C15 (amended): a closed contour of at least 3 input points whose fit
\* succeeds has 100 points whatever the number of its input points; with
\* fewer than 3 input points or a failing fit the contour is the input
\* points themselves, as many as there are.
C15_ResampleCountWhenFitted ==
    version = "main" =>
        \A n \in ClosedContours :
            LET p == prims[n]
                fitted == ContourInput(p) >= 3 /\ fit_log[p.issue] = "ok"
            IN /\ fitted => p.n = 100 /\ p.smoothed = "full"
               /\ ~fitted => p.n = ContourInput(p) /\ p.smoothed = "none"

\* two fitted contours of different numbers of input points next to each other
C15_Witness ==
    /\ version = "main" /\ Len(prims) = 2
    /\ prims[1].shape = "contour" /\ prims[2].shape = "contour"
    /\ Len(prims[1].through) # Len(prims[2].through)
    /\ Len(prims[1].through) >= 3 /\ Len(prims[2].through) >= 3
    /\ fit_log = <<"ok", "ok">>
    /\ prims[1].n = 100 /\ prims[2].n = 100

(***************************************************************************)
(* No face detected.                                                       *)
(***************************************************************************)
\* C17: when no face is detected and the issue list is not empty, no
\* primitive is built and the legend is still drawn on the output image, one
\* row per issue of the request, numbered in the order of the request.
C17_NoFaceLegendOnly ==
    (version = "main" /\ face = "none" /\ request_issues # <<>> /\ LegendBuilt) =>
        /\ prims = <<>>
        /\ resolved = <<>>
        /\ Len(legend_rows) = Len(request_issues)
        /\ \A k \in 1..Len(legend_rows) :
              /\ legend_rows[k].number = k
              /\ legend_rows[k] = LegendRow(LegendItem(k, request_issues[k]))
        /\ pc = "responded" =>
              /\ response.annotated_image.primitives = <<>>
              /\ response.annotated_image.legend = legend_rows

\* a response to two issues on an image without a face
C17_Witness ==
    /\ version = "main" /\ face = "none" /\ pc = "responded"
    /\ Len(request_issues) = 2
    /\ response.status = "success"
    /\ response.annotated_image.primitives = <<>>
    /\ Len(response.annotated_image.legend) = 2

(***************************************************************************)
(* Range of the landmark indices (checked under SpecQuery).                *)
(***************************************************************************)
\* the indices with a landmark behind them
ValidIndices == 0..(NumFaceLandmarks - 1)

InRange(indices) == \A n \in 1..Len(indices) : indices[n] \in ValidIndices

\* C18: every index of every sequence the region resolution can return, each
\* single entry of the table and each concatenation of a left and a right
\* entry, is the index of one of the landmarks of the detector (0..477), so
\* that the lookup of a landmark by index never leaves the range.
C18_IndicesInRange ==
    /\ \A key \in DOMAIN LANDMARK_INDICES : InRange(LANDMARK_INDICES[key])
    /\ InRange(LANDMARK_INDICES.left_eye \o LANDMARK_INDICES.right_eye)
    /\ InRange(LANDMARK_INDICES.left_eyebrow \o LANDMARK_INDICES.right_eyebrow)
    /\ InRange(LANDMARK_INDICES.left_under_eye \o LANDMARK_INDICES.right_under_eye)
    /\ InRange(LANDMARK_INDICES.left_tear_trough \o LANDMARK_INDICES.right_tear_trough)
    /\ InRange(LANDMARK_INDICES.left_cheek \o LANDMARK_INDICES.right_cheek)
    /\ q_done => InRange(q_out.indices) /\ InRange(q_out.plain) /\ InRange(q_out.forced)

\* a query answered with the concatenation of the two cheeks, whose largest
\* index lies beyond the 68 landmarks of a smaller detector
C18_Witness ==
    /\ q_done
    /\ q_out.plain = LANDMARK_INDICES.left_cheek \o LANDMARK_INDICES.right_cheek
    /\ \E n \in 1..Len(q_out.plain) : q_out.plain[n] > 400
    /\ InRange(q_out.plain)

(***************************************************************************)
(* Order of the rules of get_region_landmarks (checked under SpecQuery).   *)
(***************************************************************************)
\* the rules in their order: rule 11 is the fallback and matches every label
RuleMatches(rule, name) ==
    CASE rule = 1 -> Contains(name, <<"u", "n", "d", "e", "r">>) /\ Contains(name, <<"e", "y", "e">>)
      [] rule = 2 -> Contains(name, <<"l", "i", "p">>) \/ Contains(name, <<"m", "o", "u", "t", "h">>)
      [] rule = 3 -> Contains(name, <<"l", "e", "f", "t", "_", "e", "y", "e">>)
      [] rule = 4 -> Contains(name, <<"r", "i", "g", "h", "t", "_", "e", "y", "e">>)
      [] rule = 5 -> Contains(name, <<"e", "y", "e">>)
      [] rule = 6 -> Contains(name, <<"e", "y", "e", "b", "r", "o", "w">>)
      [] rule = 7 -> Contains(name, <<"n", "o", "s", "e">>)
      [] rule = 8 -> Contains(name, <<"f", "o", "r", "e", "h", "e", "a", "d">>)
      [] rule = 9 -> Contains(name, <<"t", "_", "z", "o", "n", "e">>) \/ Contains(name, <<"t", "-", "z", "o", "n", "e">>)
      [] rule = 10 -> Contains(name, <<"c", "h", "e", "e", "k">>)
      [] rule = 11 -> TRUE

\* the left entry, the right entry or both, by the side the label names
BySide(name, left, right) ==
    IF Contains(name, <<"l", "e", "f", "t">>) THEN left
    ELSE IF Contains(name, <<"r", "i", "g", "h", "t">>) THEN right
    ELSE left \o right

RuleResult(rule, name) ==
    CASE rule = 1 -> BySide(name, LANDMARK_INDICES.left_under_eye, LANDMARK_INDICES.right_under_eye)
      [] rule = 2 -> LANDMARK_INDICES.lips
      [] rule = 3 -> LANDMARK_INDICES.left_eye
      [] rule = 4 -> LANDMARK_INDICES.right_eye
      [] rule = 5 -> LANDMARK_INDICES.left_eye \o LANDMARK_INDICES.right_eye
      [] rule = 6 -> LANDMARK_INDICES.left_eyebrow \o LANDMARK_INDICES.right_eyebrow
      [] rule = 7 -> LANDMARK_INDICES.nose
      [] rule = 8 -> LANDMARK_INDICES.forehead
      [] rule = 9 -> LANDMARK_INDICES.t_zone
      [] rule = 10 -> BySide(name, LANDMARK_INDICES.left_cheek, LANDMARK_INDICES.right_cheek)
      [] rule = 11 -> LANDMARK_INDICES.face_oval

MatchingRules(name) == { rule \in 1..11 : RuleMatches(rule, name) }

FirstRule(name) == CHOOSE rule \in MatchingRules(name) : \A other \in MatchingRules(name) : rule <= other

\* C20: get_region_landmarks answers with the result of the first rule that
\* matches the lower-cased label, in the order under+eye, lip/mouth, left_eye,
\* right_eye, eye, eyebrow, nose, forehead, t_zone/t-zone, cheek, face oval;
\* a rule matches by substring, whatever the case of the letters.
C20_FirstMatchWins ==
    q_done => q_out.plain = RuleResult(FirstRule(Lower(q_region)), Lower(q_region))

\* a label with capitals that matches the rules of lip, left_eye and eye and
\* is answered by the rule of lip; and one matching left_eye and eye
C20_Witness ==
    /\ q_done
    /\ \/ /\ q_region = <<"E", "Y", "E", "l", "i", "p">>
          /\ MatchingRules(Lower(q_region)) = {2, 5, 11}
          /\ q_out.plain = LANDMARK_INDICES.lips
       \/ /\ q_region = <<"l", "e", "f", "t", "_", "e", "y", "e", "n", "o", "s", "e">>
          /\ MatchingRules(Lower(q_region)) = {3, 5, 7, 11}
          /\ q_out.plain = LANDMARK_INDICES.left_eye

(***************************************************************************)
(* The legend of a long issue list (checked under SpecLong).               *)
(***************************************************************************)
DecimalDigit(n) == <<"0", "1", "2", "3", "4", "5", "6", "7", "8", "9">>[n + 1]

\* text of the trailing row standing for n issues, n below 10
MoreRowText(n) == <<"+", DecimalDigit(n)>> \o <<" ", "m", "o", "r", "e">>

\* C16: when there are more issues than the display cap of 4, the legend
\* shows the rows of the first 4 issues and then one trailing row "+N more",
\* N being the number of issues not enumerated, instead of one row per issue.
C16_LegendCapped ==
    (version = "main" /\ LegendBuilt /\ Len(issues) > 4) =>
        /\ Len(legend_rows) = 5
        /\ \A k \in 1..4 : legend_rows[k] = LegendRow(LegendItem(k, issues[k]))
        /\ legend_rows[5].text = MoreRowText(Len(issues) - 4)

(***************************************************************************)
(* Two requests on one server (checked under SpecPair).                    *)
(***************************************************************************)
\* what the endpoint answers to a request served alone by a freshly started
\* server, given what the detector sees on its image and how its fits went
AloneResponse(q) ==
    LET wide == q.image.width > 1024
        array == IF wide THEN [width |-> 1024,
                               height |-> (q.image.height * 1024) \div q.image.width]
                 ELSE q.image
        sent(k) == IF wide
                   THEN [q.request_issues[k] EXCEPT
                            !.points = [n \in 1..Len(@) |->
                                          <<(@[n][1] * 1024) \div q.image.width,
                                            (@[n][2] * 1024) \div q.image.width>>]]
                   ELSE q.request_issues[k]
        own(k) == PixelPoints(ResolveIndices(sent(k).type, sent(k).region), q.scene,
                              array.width, array.height)
        out == [k \in 1..Len(q.request_issues) |->
                    IF q.scene = "none" THEN sent(k) ELSE [sent(k) EXCEPT !.points = own(k)]]
        drawn == IF q.scene = "none" THEN <<>>
                 ELSE [k \in 1..Len(out) |->
                          Primitive(k, out[k], out[k].points, array.height, q.fit_log[k])]
    IN [status |-> "success", code |-> 200,
        annotated_image |-> [width |-> array.width, height |-> array.height,
                             primitives |-> drawn, legend |-> LegendRows(LegendItems(out))],
        total_issues |-> Len(out), issues |-> out, image_info |-> q.image]

\* C13: annotation requests served in any order do not interfere.  The state
\* the requests share is the landmark table, which no request changes, and
\* the detector handle, set once at startup and the same ever after; the
\* annotated image and the issue list a request gets back are those it gets
\* when it is served alone.
C13_RequestsDoNotInterfere ==
    /\ shared.LANDMARK_INDICES = LANDMARK_INDICES
    /\ shared.face_mesh \in { <<>>, <<FaceMeshHandle>> }
    /\ \A r \in DOMAIN reqs :
          (reqs[r].pc = "responded" /\ reqs[r].response.status = "success") =>
              reqs[r].response = AloneResponse(reqs[r])

\* both requests answered with success, one on an image without a face and
\* one on a wide image with a face, on different issue lists
C13_Witness ==
    /\ Len(reqs) = 2
    /\ \A r \in 1..2 : reqs[r].pc = "responded" /\ reqs[r].response.status = "success"
    /\ reqs[1].scene = "none" /\ reqs[2].scene = "spread"
    /\ reqs[2].image.width > 1024
    /\ reqs[1].request_issues # reqs[2].request_issues
    /\ reqs[1].response.annotated_image.primitives = <<>>
    /\ Len(reqs[2].response.annotated_image.primitives) = Len(reqs[2].request_issues)

\* two requests that differ in nothing but the points the caller sent
SameButPoints(a, b) ==
    /\ a.image = b.image
    /\ a.scene = b.scene /\ a.face = b.face
    /\ Len(a.request_issues) = Len(b.request_issues)
    /\ \A k \in 1..Len(a.request_issues) :
          [a.request_issues[k] EXCEPT !.points = <<>>] =
              [b.request_issues[k] EXCEPT !.points = <<>>]

\* C19: the points a successful response returns for an issue are those the
\* service resolved itself and do not depend on the points the caller sent:
\* two requests that differ only in those points (same image, same detector
\* outcome, same types, regions and severities) get the same points back.
C19_PointsIndependentOfCaller ==
    ( /\ Len(reqs) = 2
      /\ \A r \in 1..2 : reqs[r].pc = "responded" /\ reqs[r].response.status = "success"
      /\ SameButPoints(reqs[1], reqs[2]) ) =>
        \A k \in 1..Len(reqs[1].response.issues) :
            reqs[1].response.issues[k].points = reqs[2].response.issues[k].points

(***************************************************************************)
(* Dark-circle issues and the region text (checked under SpecQuery).       *)
(***************************************************************************)
\* C21: an issue of a dark-circle type is resolved to a tear-trough set
\* whatever its region says, also when the region names no eye: the left set
\* if the region contains "left", else the right set if it contains "right",
\* else the left set followed by the right set; a region containing both
\* words gets the left set only.
C21_DarkCircleForcesTearTrough ==
    (q_done /\ Lower(q_type) \in DARK_CIRCLE_TYPES) =>
        LET region == Lower(q_region)
            left == <<111, 117, 118, 119, 120, 121, 128, 245>>
            right == <<340, 346, 347, 348, 349, 350, 357, 465>>
        IN /\ Contains(region, <<"l", "e", "f", "t">>) => q_out.indices = left
           /\ (~Contains(region, <<"l", "e", "f", "t">>) /\ Contains(region, <<"r", "i", "g", "h", "t">>)) => q_out.indices = right
           /\ (~Contains(region, <<"l", "e", "f", "t">>) /\ ~Contains(region, <<"r", "i", "g", "h", "t">>)) =>
                 q_out.indices = left \o right

\* a dark-circle issue on a region that names both sides and no eye
C21_Witness ==
    /\ q_done
    /\ q_type = <<"D", "a", "r", "k", " ", "C", "i", "r", "c", "l", "e", "s">>
    /\ q_region = <<"r", "i", "g", "h", "t", "L", "e", "f", "t">>
    /\ ~Contains(Lower(q_region), <<"e", "y", "e">>)
    /\ q_out.indices = LANDMARK_INDICES.left_tear_trough
    /\ q_out.plain = LANDMARK_INDICES.face_oval

(***************************************************************************)
(* Shape of the primitive against the resolved landmarks (checked under    *)
(* SpecDraw).                                                              *)
(***************************************************************************)
\* the sets of LANDMARK_INDICES that are contours of an eye or of the lips
EyeLipSets ==
    { LANDMARK_INDICES.lips, LANDMARK_INDICES.left_eye, LANDMARK_INDICES.right_eye,
      LANDMARK_INDICES.left_eye \o LANDMARK_INDICES.right_eye }

\* the sets of LANDMARK_INDICES that lie under an eye
UnderEyeSets ==
    { LANDMARK_INDICES.left_tear_trough, LANDMARK_INDICES.right_tear_trough,
      LANDMARK_INDICES.left_tear_trough \o LANDMARK_INDICES.right_tear_trough,
      LANDMARK_INDICES.left_under_eye, LANDMARK_INDICES.right_under_eye,
      LANDMARK_INDICES.left_under_eye \o LANDMARK_INDICES.right_under_eye }

\* the query has been drawn
Drawn == q_prim.shape # "none"

\* the pixel points of the landmarks resolved for the query
QueryPoints == PixelPoints(q_out.indices, "spread", 640, 480)

\* C22: an issue that is no dark-circle or under-eye issue and whose resolved
\* landmarks are an eye or lip contour is drawn as a closed smoothed curve
\* through those landmarks in their stored order, without a convex hull; an
\* issue resolved to any other region is drawn as the closed smoothed curve
\* of the convex hull of its landmarks.
C22_ContourOrHullByAnchors ==
    (Drawn /\ Lower(q_type) \notin DARK_CIRCLE_TYPES /\ q_out.indices \notin UnderEyeSets) =>
        /\ q_prim.closed
        /\ q_out.indices \in EyeLipSets =>
              q_prim.shape = "contour" /\ q_prim.through = QueryPoints
        /\ q_out.indices \notin EyeLipSets => q_prim.shape = "hull_contour"

(***************************************************************************)
(* The eyebrow rule (checked under SpecQuery).                             *)
(***************************************************************************)
\* C23: a region label that contains "eyebrow" and matches neither the
\* under-eye rule nor the lip/mouth rule is resolved to the left eyebrow set
\* followed by the right eyebrow set, so that the eyebrow rule and the
\* eyebrow entries of the table are selected by some label.
C23_EyebrowResolvesToEyebrows ==
    LET region == Lower(q_region) IN
    ( /\ q_done
      /\ Contains(region, <<"e", "y", "e", "b", "r", "o", "w">>)
      /\ ~(Contains(region, <<"u", "n", "d", "e", "r">>) /\ Contains(region, <<"e", "y", "e">>))
      /\ ~Contains(region, <<"l", "i", "p">>) /\ ~Contains(region, <<"m", "o", "u", "t", "h">>) ) =>
        q_out.plain = <<276, 283, 282, 295, 285, 300, 293, 334, 296, 336>>
                          \o <<46, 53, 52, 65, 55, 70, 63, 105, 66, 107>>

(***************************************************************************)
(* Line-like issues (checked under SpecDraw).                              *)
(***************************************************************************)
\* C24: an issue of a line-like type (wrinkles) with more than 3 points is
\* drawn as one open polyline through its points sorted by x, never as a
\* closed contour.
C24_WrinklesAreOpenPolyline ==
    (Drawn /\ Lower(q_type) = <<"w", "r", "i", "n", "k", "l", "e", "s">> /\ Len(q_out.indices) > 3) =>
        /\ ~q_prim.closed
        /\ q_prim.through = SortByX(QueryPoints)

(***************************************************************************)
(* Where a crescent is drawn (checked under SpecDraw).                     *)
(***************************************************************************)
\* C25: a crescent is drawn only for an issue whose resolved landmarks are a
\* tear-trough or under-eye set; no issue resolved to the lips, the nose, a
\* cheek, the forehead, the t-zone, an eye contour or the face oval is drawn
\* as a crescent.
C25_CrescentOnlyUnderEye ==
    (Drawn /\ q_prim.shape = "crescent") => q_out.indices \in UnderEyeSets

(***************************************************************************)
(* The issue type and the resolved landmarks (checked under SpecQuery).    *)
(***************************************************************************)
\* the types of the harness that are no dark-circle types
OtherTypes == { type \in IssueTypes : Lower(type) \notin DARK_CIRCLE_TYPES }

\* the types of the harness that are neither dark-circle nor uneven-tone types
PlainTypes ==
    { type \in OtherTypes :
        Lower(type) \notin { <<"u", "n", "e", "v", "e", "n", "_", "s", "k", "i", "n", "_", "t", "o", "n", "e">>, <<"u", "n", "e", "v", "e", "n", " ", "s", "k", "i", "n", " ", "t", "o", "n", "e">>, <<"h", "y", "p", "e", "r", "p", "i", "g", "m", "e", "n", "t", "a", "t", "i", "o", "n">>,
                             <<"p", "o", "s", "t", "_", "i", "n", "f", "l", "a", "m", "m", "a", "t", "o", "r", "y", "_", "h", "y", "p", "e", "r", "p", "i", "g", "m", "e", "n", "t", "a", "t", "i", "o", "n">> } }

C27_PointsInReportedPixelSpace ==
    ( /\ version = "main" /\ pc = "responded" /\ response.status = "success"
      /\ face \in {"spread", "collapsed"} ) =>
        \A k \in 1..Len(response.issues) :
            response.issues[k].points =
                PixelPoints(ResolveIndices(response.issues[k].type, response.issues[k].region),
                            face, response.image_info.width, response.image_info.height)

(***************************************************************************)
(* Order of the checks of the endpoint (checked under Spec).               *)
(***************************************************************************)
\* the checks of the endpoint, by the position they are made at
Checks == { "request", "download", "content_type", "decode", "check_issues" }

\* the position after a check that passed
NextCheck(p) ==
    CASE p = "request" -> "download"
      [] p = "download" -> "content_type"
      [] p = "content_type" -> "decode"
      [] p = "decode" -> "check_issues"
      [] p = "check_issues" -> "resize"

BadRequest(detail) == [status |-> "error", code |-> 400, detail |-> detail]

ServerError == [status |-> "error", code |-> 500, detail |-> "Internal server error"]

\* what the caller gets when the check at position p does not pass: the 400
\* the endpoint raises itself, or the 500 made of an exception of a library
FailureOf(p) ==
    CASE p = "request" -> { BadRequest("Invalid image URL provided") }
      [] p = "download" -> { BadRequest("Failed to download image from URL"), ServerError }
      [] p = "content_type" -> { BadRequest("URL does not point to an image file") }
      [] p = "decode" -> { ServerError }
      [] p = "check_issues" -> { BadRequest("No issues provided for annotation") }

\* C28: the annotate endpoint of main.py makes its checks in the order URL
\* well-formedness, download status, content type, image decode, non-empty
\* issue list, and answers with the first one that fails: a failure it raises
\* itself is a 400 with the detail of that check, passed on unchanged, any
\* other exception is a 500; success is returned only when all the checks
\* have passed and the annotation has returned.
C28_ChecksInOrder ==
    [][ version = "main" =>
          /\ (pc \in Checks) =>
                \/ /\ pc' = NextCheck(pc)
                   /\ response' = NoResponse
                   /\ pc = "check_issues" => request_issues # <<>>
                \/ /\ pc' = "responded"
                   /\ response' \in FailureOf(pc)
                   /\ pc = "check_issues" => request_issues = <<>>
          /\ (pc \notin Checks /\ response'.status = "error") => response' = ServerError
          /\ (response'.status = "success") =>
                /\ pc = "respond" /\ pc' = "responded"
                /\ request_issues # <<>>
                /\ \E a, b, c \in 1..Len(steps) :
                      /\ a < b /\ b < c
                      /\ steps[a] = "download" /\ steps[b] = "decode" /\ steps[c] = "encode"
                /\ response'.annotated_image = AnnotatedImage
      ]_vars

\* a request without issues whose URL holds no image: answered with the 400
\* of the content type, the third check, and not with that of the issue list
C28_Witness ==
    /\ version = "main" /\ pc = "responded"
    /\ request_issues = <<>>
    /\ steps = <<"download">>
    /\ response = BadRequest("URL does not point to an image file")

====
